---- MODULE Spec2Model ----
(***************************************************************************)
(* Model of the HealthBridgeCard custom element                            *)
(* (custom_components/health_bridge/health-bridge-card.js).                *)
(*                                                                         *)
(* JavaScript strings that the code inspects character by character        *)
(* (entity ids, friendly names, user ids) are sequences of one-character   *)
(* strings; strings the code only copies (title, state value, unit, icon)  *)
(* are TLA+ strings.                                                       *)
(***************************************************************************)
EXTENDS Integers, Sequences, FiniteSets, TLC

VARIABLES config, hass, shadowRoot, content, call

vars == <<config, hass, shadowRoot, content, call>>

(***************************************************************************)
(* Bounds of the model.                                                    *)
(***************************************************************************)
\* Largest number of entities in a snapshot of the widget specification.
MaxEntities == 2
\* Longest friendly name of the exhaustive friendly-name specification.
MaxNameLen == 5

(***************************************************************************)
(* JavaScript values.                                                      *)
(***************************************************************************)
\* The value of a property that is absent.
Undefined == "undefined"

\* String.prototype.includes / Array.prototype.includes for one element.
Includes(s, c) == \E i \in 1..Len(s) : s[i] = c

\* String.prototype.startsWith.
StartsWith(s, p) == Len(s) >= Len(p) /\ SubSeq(s, 1, Len(p)) = p

Digits == <<"0", "1", "2", "3", "4", "5", "6", "7", "8", "9">>

IsDigit(c) == c \in {"0", "1", "2", "3", "4", "5", "6", "7", "8", "9"}

DigitVal(c) == (CHOOSE d \in 1..10 : Digits[d] = c) - 1

\* a < b for two digit strings of the same length.
DigitsLess(a, b) ==
    \E i \in 1..Len(a) :
        /\ DigitVal(a[i]) < DigitVal(b[i])
        /\ \A j \in 1..(i - 1) : a[j] = b[j]

\* Numeric a < b for two canonical numerals (no leading zero): the shorter one
\* is the smaller one.
NumLess(a, b) ==
    \/ Len(a) < Len(b)
    \/ Len(a) = Len(b) /\ DigitsLess(a, b)

\* 2^32 - 2, the largest integer index.
MaxIndexKey == <<"4", "2", "9", "4", "9", "6", "7", "2", "9", "4">>

\* An integer-index property key: a canonical numeral of at most 2^32 - 2.
IsArrayIndex(k) ==
    /\ Len(k) >= 1
    /\ \A i \in 1..Len(k) : IsDigit(k[i])
    /\ (Len(k) > 1 => k[1] # "0")
    /\ ~NumLess(MaxIndexKey, k)

NotArrayIndex(k) == ~IsArrayIndex(k)

\* Ascending sort of a sequence of distinct integer-index keys.
RECURSIVE SortIndexKeys(_)
SortIndexKeys(ks) ==
    IF ks = <<>> THEN <<>>
    ELSE LET m == CHOOSE i \in 1..Len(ks) :
                      \A j \in 1..Len(ks) : ~NumLess(ks[j], ks[i])
             rest == [j \in 1..(Len(ks) - 1) |-> IF j < m THEN ks[j] ELSE ks[j + 1]]
         IN  <<ks[m]>> \o SortIndexKeys(rest)

\* Object.keys of an ordinary object whose own string keys were created in the
\* order `created`: integer-index keys ascending, then the others in creation
\* order.
ObjectKeys(created) ==
    LET indexKeys == SelectSeq(created, IsArrayIndex)
    IN  IF indexKeys = <<>> THEN created
        ELSE SortIndexKeys(indexKeys) \o SelectSeq(created, NotArrayIndex)

\* Property names every ordinary object inherits from Object.prototype (a
\* lookup of one of them on an object literal yields a truthy non-array).
ObjectPrototypeKeys ==
    { <<"c","o","n","s","t","r","u","c","t","o","r">>,
      <<"t","o","S","t","r","i","n","g">>,
      <<"t","o","L","o","c","a","l","e","S","t","r","i","n","g">>,
      <<"v","a","l","u","e","O","f">>,
      <<"h","a","s","O","w","n","P","r","o","p","e","r","t","y">>,
      <<"i","s","P","r","o","t","o","t","y","p","e","O","f">>,
      <<"p","r","o","p","e","r","t","y","I","s","E","n","u","m","e","r","a","b","l","e">>,
      <<"_","_","p","r","o","t","o","_","_">>,
      <<"_","_","d","e","f","i","n","e","G","e","t","t","e","r","_","_">>,
      <<"_","_","d","e","f","i","n","e","S","e","t","t","e","r","_","_">>,
      <<"_","_","l","o","o","k","u","p","G","e","t","t","e","r","_","_">>,
      <<"_","_","l","o","o","k","u","p","S","e","t","t","e","r","_","_">> }

(***************************************************************************)
(* The two regular expressions of updateCard.                              *)
(***************************************************************************)
\* The greedy run [^)]+ started at index `from`: the index of the last
\* character it consumes (from - 1 when it consumes nothing).
RECURSIVE GreedyNotClose(_, _)
GreedyNotClose(s, from) ==
    IF from <= Len(s) /\ s[from] # ")" THEN GreedyNotClose(s, from + 1)
    ELSE from - 1

\* A capture group that also refuses "(", as in /\(([^()]+)\)$/: the match
\* can only start at the last "(".
RECURSIVE GreedyNotParen(_, _)
GreedyNotParen(s, from) ==
    IF from <= Len(s) /\ s[from] # ")" /\ s[from] # "(" THEN GreedyNotParen(s, from + 1)
    ELSE from - 1

UserIdMatchesAtLastOpen(s, i) ==
    /\ i <= Len(s)
    /\ s[i] = "("
    /\ LET e == GreedyNotParen(s, i + 1)
       IN  /\ e >= i + 1
           /\ e + 1 = Len(s)
           /\ s[e + 1] = ")"

\* /\(([^)]+)\)$/ tried at start index i. Backtracking the greedy run never
\* helps: a shorter run must be followed by ")", and the run holds none.
UserIdMatchesAt(s, i) ==
    /\ i <= Len(s)
    /\ s[i] = "("
    /\ LET e == GreedyNotClose(s, i + 1)
       IN  /\ e >= i + 1
           /\ e + 1 = Len(s)
           /\ s[e + 1] = ")"

\* friendlyName.match(/\(([^)]+)\)$/): the start indexes are tried from `i`
\* on, left to right; the result is the first one that matches, 0 for null.
RECURSIVE UserIdMatchFrom(_, _)
UserIdMatchFrom(s, i) ==
    IF i > Len(s) THEN 0
    ELSE IF UserIdMatchesAt(s, i) THEN i
    ELSE UserIdMatchFrom(s, i + 1)

UserIdMatchStart(s) == UserIdMatchFrom(s, 1)

\* matches[1] of the match that starts at index `start`.
UserIdCapture(s, start) == SubSeq(s, start + 1, Len(s) - 1)

\* / \([^)]+\)$/ tried at start index i.
SuffixMatchesAt(s, i) ==
    /\ i + 1 <= Len(s)
    /\ s[i] = " "
    /\ s[i + 1] = "("
    /\ LET e == GreedyNotClose(s, i + 2)
       IN  /\ e >= i + 2
           /\ e + 1 = Len(s)
           /\ s[e + 1] = ")"

\* The first start index from `i` on at which / \([^)]+\)$/ matches, 0 for none.
RECURSIVE SuffixMatchFrom(_, _)
SuffixMatchFrom(s, i) ==
    IF i > Len(s) THEN 0
    ELSE IF SuffixMatchesAt(s, i) THEN i
    ELSE SuffixMatchFrom(s, i + 1)

\* friendlyName.replace(/ \([^)]+\)$/, ''): the leftmost match, which reaches
\* the end of the string, is removed; the string is returned as it is when
\* nothing matches.
MetricName(s) ==
    LET i == SuffixMatchFrom(s, 1)
    IN  IF i = 0 THEN s ELSE SubSeq(s, 1, i - 1)

(***************************************************************************)
(* Values handed to the widget.                                            *)
(***************************************************************************)
\* A setConfig argument. t is the JavaScript type of the argument; title is
\* the value of its title property (Undefined when it has none).
ConfigArg(t, title) == [t |-> t, title |-> title]

\* this.config before setConfig has stored anything.
NoConfig == ConfigArg("undefined", Undefined)

\* A friendly_name attribute. t is "absent", "str" (s holds the characters),
\* "num" (a non-zero number) or "arr" (an array; s holds its elements, each a
\* one-character string).
FriendlyName(t, s) == [t |-> t, s |-> s]

\* An entry of hass.states. obj: the state object is there (not null);
\* attrs: it has an attributes object.
StateObj(obj, attrs, fn, unit, icon) ==
    [obj |-> obj, attrs |-> attrs, fn |-> fn, state |-> "1200",
     unit |-> unit, icon |-> icon]

Entity(id, st) == [id |-> id, st |-> st]

\* The argument of the hass setter. t: "undefined" (never set), "null" or
\* "object"; hasStates: the object has a states property; states: its
\* entries in property creation order.
Hass(t, hasStates, states) == [t |-> t, hasStates |-> hasStates, states |-> states]

NoHass == Hass("undefined", FALSE, <<>>)

\* JavaScript truthiness of the values above.
TruthyString(x) == x # Undefined /\ x # ""

TruthyFriendlyName(fn) ==
    CASE fn.t = "absent" -> FALSE
      [] fn.t = "str"    -> fn.s # <<>>
      [] fn.t = "num"    -> TRUE
      [] fn.t = "arr"    -> TRUE

(***************************************************************************)
(* Rendered elements.                                                      *)
(***************************************************************************)
HeaderEl(title) == [cls |-> "header", text |-> title]

PlaceholderEl ==
    [cls |-> "placeholder",
     text |-> "No health data available. Set up Health Bridge integration and start receiving data."]

\* A metric card. parts lists the classes of its child elements in order;
\* entity records the entity the card was built from.
MetricCard(e) ==
    LET unit == IF TruthyString(e.st.unit) THEN e.st.unit ELSE ""
        icon == IF TruthyString(e.st.icon) THEN e.st.icon ELSE "mdi:help-circle"
    IN  [cls    |-> "metric-card",
         entity |-> e.id,
         icon   |-> icon,
         value  |-> e.st.state,
         name   |-> MetricName(e.st.fn.s),
         unit   |-> unit,
         parts  |-> <<"metric-icon", "metric-value", "metric-name">>
                        \o (IF unit # "" THEN <<"metric-unit">> ELSE <<>>)]

\* A user section: the header "User: <userId>" and the metrics grid.
UserSection(userId, cards) ==
    [cls |-> "user-section", user |-> userId, cards |-> cards]

(***************************************************************************)
(* updateCard.                                                             *)
(***************************************************************************)
\* hass.states[entity_id].
EntityAt(h, id) == h.states[CHOOSE i \in 1..Len(h.states) : h.states[i].id = id]

\* Object.keys(this._hass.states).
StateKeys(h) == ObjectKeys([i \in 1..Len(h.states) |-> h.states[i].id])

\* The first filter: entity_id.startsWith('sensor.') && entity_id.includes('_').
IsSensorId(id) ==
    /\ StartsWith(id, <<"s", "e", "n", "s", "o", "r", ".">>)
    /\ Includes(id, "_")

\* The second filter's callback throws a TypeError: friendly_name is truthy
\* and has no includes method.
FilterThrows(st) ==
    /\ st.obj
    /\ st.attrs
    /\ TruthyFriendlyName(st.fn)
    /\ st.fn.t = "num"

\* The second filter's callback returns a truthy value.
HasParenName(st) ==
    /\ st.obj
    /\ st.attrs
    /\ TruthyFriendlyName(st.fn)
    /\ st.fn.t \in {"str", "arr"}
    /\ Includes(st.fn.s, "(")

\* userEntityMap: its own properties in creation order, each [key, ids].
OwnKeys(map) == [i \in 1..Len(map) |-> map[i].key]

HasOwn(map, k) == \E i \in 1..Len(map) : map[i].key = k

\* The grouping loop over healthBridgeEntities, from position i with the map
\* built so far. The result is [map, threw, by]: the loop stops at the first
\* TypeError, and `by` is the entity whose turn raised it.
RECURSIVE GroupFrom(_, _, _, _)
GroupFrom(h, ids, i, map) ==
    IF i > Len(ids) THEN [map |-> map, threw |-> FALSE, by |-> <<>>]
    ELSE
      LET fn == EntityAt(h, ids[i]).st.fn IN
      IF fn.t # "str"
      THEN \* friendlyName.match is not a function
           [map |-> map, threw |-> TRUE, by |-> ids[i]]
      ELSE
      LET matches == UserIdMatchStart(fn.s) IN
      IF matches = 0
      THEN GroupFrom(h, ids, i + 1, map)
      ELSE
        LET userId == UserIdCapture(fn.s, matches) IN
        IF HasOwn(map, userId)
        THEN GroupFrom(h, ids, i + 1,
                 [j \in 1..Len(map) |->
                     IF map[j].key = userId
                     THEN [key |-> userId, ids |-> Append(map[j].ids, ids[i])]
                     ELSE map[j]])
        ELSE IF userId \in ObjectPrototypeKeys
        THEN \* the inherited property is truthy and has no push method
             [map |-> map, threw |-> TRUE, by |-> ids[i]]
        ELSE GroupFrom(h, ids, i + 1,
                 Append(map, [key |-> userId, ids |-> <<ids[i]>>]))

\* The sections appended for userEntityMap, in Object.keys order.
Sections(h, map) ==
    LET keys == ObjectKeys(OwnKeys(map))
        idsOf(k) == map[CHOOSE j \in 1..Len(map) : map[j].key = k].ids
    IN  [n \in 1..Len(keys) |->
            UserSection(keys[n],
                [m \in 1..Len(idsOf(keys[n])) |->
                    MetricCard(EntityAt(h, idsOf(keys[n])[m]))])]

\* The first entity from position i on at which the second filter throws
\* (<<>> for none).
RECURSIVE FirstFilterThrow(_, _, _)
FirstFilterThrow(h, ids, i) ==
    IF i > Len(ids) THEN <<>>
    ELSE IF FilterThrows(EntityAt(h, ids[i]).st) THEN ids[i]
    ELSE FirstFilterThrow(h, ids, i + 1)

\* updateCard with a truthy this._hass and this.config: the children of
\* this.content when it returns or throws, whether it throws, and the entity
\* at which it throws (<<>> when it does not, or not at an entity).
Render(cfg, h) ==
    LET header == HeaderEl(cfg.title) IN
    IF ~h.hasStates
    THEN \* Object.keys(undefined)
         [children |-> <<header>>, threw |-> TRUE, by |-> <<>>]
    ELSE
      LET sensors == SelectSeq(StateKeys(h), IsSensorId)
          PassesFilter(id) == HasParenName(EntityAt(h, id).st)
          thrower == FirstFilterThrow(h, sensors, 1)
      IN
      IF thrower # <<>>
      THEN [children |-> <<header>>, threw |-> TRUE, by |-> thrower]
      ELSE
        LET healthBridgeEntities == SelectSeq(sensors, PassesFilter) IN
        IF Len(healthBridgeEntities) = 0
        THEN [children |-> <<header, PlaceholderEl>>, threw |-> FALSE, by |-> <<>>]
        ELSE
          LET g == GroupFrom(h, healthBridgeEntities, 1, <<>>) IN
          IF g.threw
          THEN [children |-> <<header>>, threw |-> TRUE, by |-> g.by]
          ELSE [children |-> <<header>> \o Sections(h, g.map),
                threw |-> FALSE, by |-> <<>>]

\* A guard that forgets the configuration: if (!this._hass) return.
ReturnsEarlyWithoutHass(cfg, h) == h.t # "object"

\* The guard of updateCard: if (!this._hass || !this.config) return.
UpdateCardReturnsEarly(cfg, h) == h.t # "object" \/ cfg.t = "undefined"

\* updateCard without this.content.innerHTML = '': the new elements follow
\* the old ones.
UpdateCardWithoutClear(cfg, h, children) ==
    IF UpdateCardReturnsEarly(cfg, h)
    THEN [children |-> children, threw |-> FALSE, by |-> <<>>]
    ELSE [Render(cfg, h) EXCEPT !.children = children \o @]

\* updateCard: the children of this.content afterwards, and whether it threw.
UpdateCard(cfg, h, children) ==
    IF UpdateCardReturnsEarly(cfg, h)
    THEN [children |-> children, threw |-> FALSE, by |-> <<>>]
    ELSE Render(cfg, h)

(***************************************************************************)
(* The widget.                                                             *)
(***************************************************************************)
\* The constructor: an empty shadow root, no content element, no config.
Init ==
    /\ config = NoConfig
    /\ hass = NoHass
    /\ shadowRoot = <<>>
    /\ content = [created |-> FALSE, children |-> <<>>]
    /\ call = [op |-> "none", threw |-> FALSE, by |-> <<>>, same |-> FALSE,
               arg |-> NoConfig]

\* set hass(h). call records the last call of the host: what it called, whether
\* the call threw (and at which entity), its setConfig argument as passed, and
\* whether it is set hass straight after set hass with the same snapshot.
SetHass(h) ==
    LET r == UpdateCard(config, h, content.children) IN
    /\ hass' = h
    /\ shadowRoot' = IF content.created THEN shadowRoot
                     ELSE shadowRoot \o <<"div.card-content", "style">>
    /\ content' = [created |-> TRUE, children |-> r.children]
    /\ call' = [op |-> "hass", threw |-> r.threw, by |-> r.by,
                same |-> (call.op = "hass" /\ hass = h), arg |-> NoConfig]
    /\ UNCHANGED config

\* Reading config.title throws for null and undefined; writing it throws for
\* a primitive (class bodies are strict code).
SetConfigThrows(arg) ==
    \/ arg.t \in {"null", "undefined"}
    \/ arg.t \in {"string", "number"} /\ ~TruthyString(arg.title)

\* The argument object once setConfig has returned.
Resolved(arg) ==
    IF TruthyString(arg.title) THEN arg
    ELSE [arg EXCEPT !.title = "Health Bridge"]

\* The object the caller passed to the last setConfig, as it is after the
\* call: this.config is that very object when the call stored it.
CallerObject == IF call.threw THEN call.arg ELSE config

\* setConfig(arg). this.config is the caller's object itself.
SetConfig(arg) ==
    /\ config' = IF SetConfigThrows(arg) THEN config ELSE Resolved(arg)
    /\ call' = [op |-> "setConfig", threw |-> SetConfigThrows(arg), by |-> <<>>,
                same |-> FALSE, arg |-> arg]
    /\ UNCHANGED <<hass, shadowRoot, content>>

(***************************************************************************)
(* Inputs.                                                                 *)
(***************************************************************************)
\* setConfig arguments that are objects: {}, {title: ''}, {title: 'My Health'}.
EmptyConfig == ConfigArg("object", Undefined)

ObjectConfigs ==
    { EmptyConfig, ConfigArg("object", ""), ConfigArg("object", "My Health") }

\* setConfig arguments that are no objects: null, undefined, 'abc', 42.
NonObjectConfigs ==
    { ConfigArg("null", Undefined), ConfigArg("undefined", Undefined),
      ConfigArg("string", Undefined), ConfigArg("number", Undefined) }

ConfigArgs == ObjectConfigs \cup NonObjectConfigs

IdSteps == <<"s","e","n","s","o","r",".","h","b","_","s","t","e","p","s">>
IdSleep == <<"s","e","n","s","o","r",".","h","b","_","s","l","e","e","p">>
IdNoUnderscore == <<"s","e","n","s","o","r",".","s","t","e","p","s">>
IdLight == <<"l","i","g","h","t",".","h","b","_","l","a","m","p">>

NameStepsAl == <<"S","t","e","p","s"," ","(","a","l",")">>
NameSleepAl == <<"S","l","e","e","p"," ","(","a","l",")">>
NameStepsBo == <<"S","t","e","p","s"," ","(","b","o",")">>
NameSteps7 == <<"S","t","e","p","s"," ","(","7",")">>
NameSteps10 == <<"S","t","e","p","s"," ","(","1","0",")">>
NameSteps == <<"S","t","e","p","s">>
NameMidParen == <<"S","t","e","p","s"," ","(","a","l",")"," ","x">>
NameCtor == <<"S","t","e","p","s"," ","(","c","o","n","s","t","r","u","c","t","o","r",")">>

\* A state object with every attribute the card reads.
Sensor(name) ==
    StateObj(TRUE, TRUE, FriendlyName("str", name), "count", "mdi:walk")

\* The state objects of the widget specification: well-formed ones, one
\* without unit and icon, and malformed or partial ones (a number and an
\* array as friendly name, no friendly name, no attributes, no state object).
SensorStates ==
    { Sensor(NameStepsAl), Sensor(NameStepsBo), Sensor(NameSteps7),
      Sensor(NameSteps10), Sensor(NameSteps), Sensor(NameMidParen),
      Sensor(NameCtor),
      StateObj(TRUE, TRUE, FriendlyName("str", NameSleepAl), Undefined, Undefined),
      StateObj(TRUE, TRUE, FriendlyName("num", <<>>), "count", "mdi:walk"),
      StateObj(TRUE, TRUE, FriendlyName("arr", <<"(">>), "count", "mdi:walk"),
      StateObj(TRUE, TRUE, FriendlyName("absent", <<>>), "count", "mdi:walk"),
      StateObj(TRUE, FALSE, FriendlyName("absent", <<>>), Undefined, Undefined),
      StateObj(FALSE, FALSE, FriendlyName("absent", <<>>), Undefined, Undefined) }

\* The state objects an entity id has in the widget specification: the ids
\* that fail the first filter keep one state object, which is never read.
StatesOfId(id) ==
    IF IsSensorId(id) THEN SensorStates ELSE {Sensor(NameStepsAl)}

\* The entries a state table is made of.
TableEntities ==
    { Entity(id, st) : id \in {IdSteps, IdSleep}, st \in SensorStates }
        \cup { Entity(IdLight, Sensor(NameStepsAl)) }

HasId(t, id) == \E i \in 1..Len(t) : t[i].id = id

\* hass.states: at most MaxEntities entries with distinct keys.
StateTables ==
    UNION { { t \in [1..n -> TableEntities] :
                \A i, j \in 1..n : t[i].id = t[j].id => i = j } :
            n \in 0..MaxEntities }

\* A hass object with the state table t.
HassOf(t) == Hass("object", TRUE, t)

\* hass arguments without a state table: null and an object without states.
BrokenHass == { Hass("null", FALSE, <<>>), Hass("object", FALSE, <<>>) }

Snapshots == BrokenHass \cup { HassOf(t) : t \in StateTables }

\* The host sets hass whenever a state changes anywhere: the table it
\* delivers after table t is t itself, or t with one entity added (a new key
\* is created last), removed or given another state object.
NextTables(t) ==
    {t}
    \cup { Append(t, e) : e \in { x \in TableEntities :
                                    Len(t) < MaxEntities /\ ~HasId(t, x.id) } }
    \cup { [j \in 1..(Len(t) - 1) |-> IF j < i THEN t[j] ELSE t[j + 1]] :
              i \in 1..Len(t) }
    \cup UNION { { [t EXCEPT ![i] = Entity(t[i].id, st)] :
                      st \in StatesOfId(t[i].id) } : i \in 1..Len(t) }

\* What the host may hand to the hass setter after h: any snapshot the first
\* time; later null, an object without states, or a successor of the last
\* table (the empty table after a hass without one).
Deliveries(h) ==
    IF h.t = "undefined" THEN Snapshots
    ELSE BrokenHass \cup { HassOf(t) : t \in NextTables(h.states) }

\* The characters of the exhaustive friendly-name specification.
NameChars == {"(", ")", " ", "a", "7"}

\* Every friendly name of at most MaxNameLen of these characters.
AllNames == UNION { [1..n -> NameChars] : n \in 0..MaxNameLen }

\* One sensor with each of these names.
NameSnapshots == { HassOf(<<Entity(IdSteps, Sensor(n))>>) : n \in AllNames }

\* The snapshots of the configuration specification.
SmallSnapshots ==
    BrokenHass \cup { HassOf(<<>>) }
        \cup { HassOf(<<Entity(id, Sensor(NameStepsAl))>>) :
                  id \in {IdSteps, IdNoUnderscore, IdLight} }

(***************************************************************************)
(* Specifications.                                                         *)
(***************************************************************************)
\* The widget under a host that configures it with objects and delivers
\* state tables.
Next ==
    \/ \E arg \in {EmptyConfig, ConfigArg("object", "My Health")} : SetConfig(arg)
    \/ \E h \in Deliveries(hass) : SetHass(h)

Spec == Init /\ [][Next]_vars

\* The widget under a host that hands setConfig any argument.
NextConfig ==
    \/ \E arg \in ConfigArgs : SetConfig(arg)
    \/ \E h \in SmallSnapshots : SetHass(h)

SpecConfig == Init /\ [][NextConfig]_vars

\* The widget with the default configuration and one sensor, whose friendly
\* name is any name of AllNames and does not change.
NextNames ==
    \/ SetConfig(EmptyConfig)
    \/ \E h \in (IF hass.t = "undefined" THEN NameSnapshots ELSE {hass}) : SetHass(h)

SpecNames == Init /\ [][NextNames]_vars

(***************************************************************************)
(* Vocabulary of the properties.                                           *)
(***************************************************************************)
ConfigSet == config.t # "undefined"

\* The last call was set hass with a state table, configuration being set.
Updated == call.op = "hass" /\ ConfigSet /\ hass.t = "object" /\ hass.hasStates

\* The user sections among the children of the content element.
IsSection(el) == el.cls = "user-section"

SectionsOf(children) == SelectSeq(children, IsSection)

\* The entity has a card in some rendered section.
HasCard(id) ==
    \E n \in 1..Len(content.children) :
        /\ IsSection(content.children[n])
        /\ \E m \in 1..Len(content.children[n].cards) :
               content.children[n].cards[m].entity = id

\* The friendly name is a string that ends in a parenthesized suffix.
EndsInSuffix(st) ==
    st.obj /\ st.attrs /\ st.fn.t = "str" /\ UserIdMatchStart(st.fn.s) # 0

\* The entity passes the filter of step 3 and the extraction of step 4.
ProducesGroup(e) == IsSensorId(e.id) /\ HasParenName(e.st) /\ EndsInSuffix(e.st)

\* The ids of the entities of the table that produce a group, in the
\* iteration order of the snapshot.
GroupedIds(h) ==
    LET Grouped(id) == ProducesGroup(EntityAt(h, id))
    IN  SelectSeq(StateKeys(h), Grouped)

UserOf(h, id) ==
    LET s == EntityAt(h, id).st.fn.s
    IN  UserIdCapture(s, UserIdMatchStart(s))

\* The distinct elements of a sequence in the order of their first occurrence.
RECURSIVE FirstSeen(_)
FirstSeen(seq) ==
    IF seq = <<>> THEN <<>>
    ELSE LET front == FirstSeen(SubSeq(seq, 1, Len(seq) - 1))
             last == seq[Len(seq)]
         IN  IF Includes(front, last) THEN front ELSE Append(front, last)

(***************************************************************************)
(* C1. After an update with configuration set, a snapshot from which no    *)
(* user group is produced renders the title header followed by exactly one *)
(* placeholder, and no user section. Stated for the updates that complete. *)
(***************************************************************************)
C1_PlaceholderWhenNoGroup ==
    (/\ Updated
     /\ ~call.threw
     /\ \A i \in 1..Len(hass.states) : ~ProducesGroup(hass.states[i]))
        => content.children = <<HeaderEl(config.title), PlaceholderEl>>

(***************************************************************************)
(* C2. set hass before any setConfig is a no-op: the output tree (the      *)
(* shadow root and the content element) is what it was before the call.    *)
(***************************************************************************)
C2_HassBeforeConfigChangesNothing ==
    [][(~ConfigSet /\ call'.op = "hass")
          => (shadowRoot' = shadowRoot /\ content' = content)]_vars

\* C2 as amended: set hass before any setConfig renders nothing into the
\* content element (no header, placeholder or section) and does not throw;
\* it stores the snapshot and, the first time, appends the empty content
\* element and the style element to the shadow root.
C2_HassBeforeConfigRendersNothing ==
    [][(~ConfigSet /\ call'.op = "hass")
          => /\ content.children = <<>>
             /\ content' = [created |-> TRUE, children |-> <<>>]
             /\ shadowRoot' = (IF content.created THEN shadowRoot
                               ELSE <<"div.card-content", "style">>)
             /\ ~call'.threw
             /\ config' = config]_vars

C2_Witness ==
    /\ ~ConfigSet
    /\ call.op = "hass"
    /\ hass.t = "object" /\ hass.hasStates
    /\ \E i \in 1..Len(hass.states) : ProducesGroup(hass.states[i])
    /\ content = [created |-> TRUE, children |-> <<>>]

(***************************************************************************)
(* C3. Idempotence of update: set hass called straight after set hass with *)
(* the same snapshot leaves the rendered output as the first call left it. *)
(***************************************************************************)
C3_UpdateIdempotent ==
    [][(call'.op = "hass" /\ call'.same)
          => (content' = content /\ shadowRoot' = shadowRoot)]_vars

C3_Witness ==
    /\ Updated
    /\ call.same
    /\ Len(SectionsOf(content.children)) >= 2

(***************************************************************************)
(* C4. An entity whose id does not match the sensor naming convention, or  *)
(* whose friendly name does not end in a parenthesized suffix, has no card *)
(* in any rendered group and causes no error.                              *)
(***************************************************************************)
C4_NonConformingAbsentNoError ==
    Updated =>
        \A i \in 1..Len(hass.states) :
            LET e == hass.states[i] IN
            (~IsSensorId(e.id) \/ ~EndsInSuffix(e.st))
                => (~HasCard(e.id) /\ ~(call.threw /\ call.by = e.id))

(***************************************************************************)
(* C5. User sections are rendered in the order in which their grouping     *)
(* keys are first met in the iteration order of the snapshot, numeric keys *)
(* included, and the cards of a section are in that order too. Stated for  *)
(* the updates that complete.                                              *)
(***************************************************************************)
C5_SectionsInFirstSeenOrder ==
    (Updated /\ ~call.threw) =>
        LET ids == GroupedIds(hass)
            users == FirstSeen([n \in 1..Len(ids) |-> UserOf(hass, ids[n])])
            secs == SectionsOf(content.children)
        IN  /\ [n \in 1..Len(secs) |-> secs[n].user] = users
            /\ \A n \in 1..Len(secs) :
                   LET OfUser(id) == UserOf(hass, id) = secs[n].user
                   IN  [m \in 1..Len(secs[n].cards) |-> secs[n].cards[m].entity]
                           = SelectSeq(ids, OfUser)

(***************************************************************************)
(* C6. With configuration set, set hass never throws, whatever the         *)
(* entities of the snapshot and the user ids of their friendly names: the  *)
(* render completes with the header and either sections or the placeholder.*)
(***************************************************************************)
C6_UpdateNeverThrows ==
    Updated =>
        /\ ~call.threw
        /\ Len(content.children) >= 2
        /\ content.children[1] = HeaderEl(config.title)
        /\ \/ content.children = <<HeaderEl(config.title), PlaceholderEl>>
           \/ \A n \in 2..Len(content.children) : IsSection(content.children[n])

(***************************************************************************)
(* C7. setConfig with an argument that is no object (null, undefined, a    *)
(* string, a number) raises no error and leaves this.config as it was.     *)
(***************************************************************************)
C7_NonObjectConfigFailsSilently ==
    [][(call'.op = "setConfig" /\ call'.arg \in NonObjectConfigs)
          => (~call'.threw /\ config' = config)]_vars

(***************************************************************************)
(* C8. setConfig with an object only stores the resolved configuration:    *)
(* the caller's object is after the call what it was when passed, and      *)
(* nothing is rendered.                                                    *)
(***************************************************************************)
C8_SetConfigLeavesArgument ==
    [][(call'.op = "setConfig" /\ call'.arg \in ObjectConfigs)
          => (CallerObject' = call'.arg /\ UNCHANGED <<hass, shadowRoot, content>>)]_vars

(***************************************************************************)
(* Vocabulary of the friendly-name properties.                             *)
(***************************************************************************)
\* The one sensor of the snapshot has been rendered with configuration set.
NameRendered ==
    /\ Updated
    /\ Len(hass.states) = 1
    /\ hass.states[1].st.fn.t = "str"

TheName == hass.states[1].st.fn.s

\* The users of the rendered sections.
RenderedUsers ==
    LET secs == SectionsOf(content.children)
    IN  [n \in 1..Len(secs) |-> secs[n].user]

\* The largest index of c in s below `below`, 0 for none.
LastIndexBelow(s, c, below) ==
    IF \E i \in 1..(below - 1) : s[i] = c
    THEN CHOOSE i \in 1..(below - 1) :
             s[i] = c /\ \A j \in (i + 1)..(below - 1) : s[j] # c
    ELSE 0

\* The smallest index of c in s above `above` and below `below`, 0 for none.
FirstIndexBetween(s, c, above, below) ==
    IF \E i \in (above + 1)..(below - 1) : s[i] = c
    THEN CHOOSE i \in (above + 1)..(below - 1) :
             s[i] = c /\ \A j \in (above + 1)..(i - 1) : s[j] # c
    ELSE 0

(***************************************************************************)
(* C9. For a friendly name that ends in "(...)", the grouping key is the   *)
(* substring strictly between the LAST "(" and the ")" that ends the name; *)
(* a name that does not end in "(...)" with non-empty content has no key.  *)
(***************************************************************************)
C9_KeyFollowsLastOpenParen ==
    NameRendered =>
        LET s == TheName
            open == LastIndexBelow(s, "(", Len(s))
            key == SubSeq(s, open + 1, Len(s) - 1)
        IN  IF /\ s # <<>>
               /\ s[Len(s)] = ")"
               /\ open # 0
               /\ key # <<>>
               /\ ~Includes(key, ")")
            THEN RenderedUsers = <<key>>
            ELSE RenderedUsers = <<>>

\* C9 as amended: for a friendly name that ends in ")", the grouping key is
\* the substring strictly between that final ")" and the FIRST "(" after the
\* last earlier ")" (the first "(" of the name when there is no earlier
\* ")"), when that substring is not empty; the key may hold "(". With one
\* "(" in that stretch it is the substring after the last "(". Every other
\* friendly name has no key.
C9_KeyFollowsFirstOpenParenOfTail ==
    NameRendered =>
        LET s == TheName
            close == LastIndexBelow(s, ")", Len(s))
            open == FirstIndexBetween(s, "(", close, Len(s))
        IN  IF /\ s # <<>>
               /\ s[Len(s)] = ")"
               /\ open # 0
               /\ open < Len(s) - 1
            THEN RenderedUsers = <<SubSeq(s, open + 1, Len(s) - 1)>>
            ELSE RenderedUsers = <<>>

C9_Witness ==
    /\ NameRendered
    /\ Len(RenderedUsers) = 1
    /\ Includes(RenderedUsers[1], "(")
    /\ Includes(TheName, " ")

(***************************************************************************)
(* C10. The display name of every rendered card is the friendly name       *)
(* without its trailing parenthetical and without the separating space, so *)
(* it never ends in the "(<user id>)" under which the card is grouped.     *)
(***************************************************************************)
C10_DisplayNameWithoutSuffix ==
    NameRendered =>
        \A n \in 1..Len(content.children) :
            IsSection(content.children[n]) =>
                \A m \in 1..Len(content.children[n].cards) :
                    LET s == TheName
                        user == content.children[n].user
                        suffix == <<"(">> \o user \o <<")">>
                        base == SubSeq(s, 1, Len(s) - Len(suffix))
                        stripped == IF base # <<>> /\ base[Len(base)] = " "
                                    THEN SubSeq(base, 1, Len(base) - 1)
                                    ELSE base
                        name == content.children[n].cards[m].name
                    IN  /\ name = stripped
                        /\ ~(Len(name) >= Len(suffix)
                               /\ SubSeq(name, Len(name) - Len(suffix) + 1, Len(name)) = suffix)

====
